---------------------------- MODULE Spec2Model ----------------------------
(***************************************************************************)
(* A model of the scan-completion tracking code of encephalon-examples:    *)
(*   - basic/scan.py: get_scan and the polling loop                        *)
(*     wait_for_scan_completion;                                           *)
(*   - flows/create_scan_and_retrieve_inference_results_with_webhooks.py:  *)
(*     handle_webhook_notification and setup_webhook;                      *)
(*   - basic/*.py: the functions of the resource client, each one HTTP     *)
(*     request followed by raise_for_status().                             *)
(* The remote service, the wall clock and the HTTP transport are the       *)
(* environment: the remote changes a scan's status at any moment, a fetch  *)
(* takes a nondeterministic time and may answer with an error status code. *)
(***************************************************************************)
EXTENDS Integers, Sequences, FiniteSets, TLC

(* ------------------------------ bounds -------------------------------- *)

\* timeout ranges over -MaxNegTimeout .. MaxTimeout (seconds)
MaxTimeout == 2

MaxNegTimeout == 2

\* poll_interval ranges over 1 .. MaxPoll (seconds)
MaxPoll == 2

\* one HTTP request takes 0 .. MaxLatency seconds
MaxLatency == 1

\* time.time() at the call of wait_for_scan_completion is 0 .. MaxStartClock
MaxStartClock == 1

\* how many times one notification is delivered to the handler
MaxDeliveries == 2

(* ------------------------------ values -------------------------------- *)

ScanIds == {"scan-1", "scan-2"}

\* the statuses the get_scan documentation lists, and one value outside them
Statuses == {"PENDING", "STARTED", "COMPLETED", "FAILED", "QUEUED"}

\* mutant: FAILED is left out of the list
TerminalWithoutFailed == {"COMPLETED"}

\* scan.py:238, the list the loop tests the status against
TERMINAL == {"COMPLETED", "FAILED"}

\* the status codes an HTTP response of the model carries
StatusCodes == {200, 404, 500}

Timeouts == (0 - MaxNegTimeout) .. MaxTimeout

PollIntervals == 1 .. MaxPoll

\* the most calls one invocation makes: the loop leaves at the first check
\* with elapsed > timeout, which comes after at most MaxTimeout + 1 sleeps of
\* at least one second each, that is MaxTimeout + 2 fetches
MaxCalls == 2 * MaxTimeout + 3

NoScan == [uuid |-> "none", status |-> "none", report |-> "none"]

NoResponse == [status_code |-> 0, json |-> NoScan]

NoError == [type |-> "none"]

\* a field a JSON object does not have; Python's None (JSON null)
Absent == "<absent>"

None == "<None>"

\* the values of the report field of a notification: the key is absent, null,
\* or an object whose uuid is absent, empty or a report's uuid
ReportIds == {"report-1", "report-2"}

ReportValues ==
    {[kind |-> "absent", uuid |-> Absent], [kind |-> "null", uuid |-> Absent]}
    \cup {[kind |-> "object", uuid |-> u] : u \in {Absent, ""} \cup ReportIds}

\* the JSON objects a body parses to: each of scan_id, status, report may be absent
Payloads ==
    [scan_id : ScanIds \cup {Absent},
     status : Statuses \cup {Absent},
     report : ReportValues]

NoPayload == [scan_id |-> Absent, status |-> Absent,
              report |-> [kind |-> "absent", uuid |-> Absent]]

\* the bodies delivered: bytes that are not UTF-8, text that is not JSON, JSON
\* that is not an object (a list, a string, null), and JSON objects
Bodies ==
    {[kind |-> k, json |-> NoPayload] : k \in {"invalid_utf8", "invalid_json", "non_object"}}
    \cup {[kind |-> "object", json |-> p] : p \in Payloads}

NoBody == [kind |-> "none", json |-> NoPayload]

NoResult == [status |-> "none"]

VARIABLES
    now,            \* the wall clock, time.time()
    remote,         \* the remote service: the status of each scan
    calls,          \* the calls made so far: get_scan requests and sleeps
    response,       \* get_scan's local: the last HTTP response
    scan_uuid,      \* wait_for_scan_completion's parameters
    timeout,
    poll_interval,
    start_time,     \* wait_for_scan_completion's locals
    scan,
    pc,             \* its position: entry, fetch, check, sleep, returned, raised
    result,         \* the value it returned
    error,          \* the error it raised
    webhook_payload,    \* handle_webhook_notification's parameter: the body
    payload,            \* its locals
    report_uuid,
    wpc,            \* its position: idle, parse, branch, get_report, get_scan,
                    \* returned, raised
    wresult,        \* the value it returned
    werror,         \* the error it raised
    deliveries,     \* the earlier handlings of the same notification: what
                    \* each one called, was answered, and returned or raised
    fn,             \* the function of the resource client that is called
    args,           \* its arguments
    cpc,            \* its position: idle, call, opened, redirected, write,
                    \* returned, raised
    requests,       \* the HTTP requests sent so far in this call
    cresult,        \* the value it returned
    cerror,         \* the error it raised
    finished,       \* the earlier calls of the same function with the same
                    \* arguments: what each sent, was answered, and gave back
    registered,     \* the remote service: the webhook endpoints registered,
                    \* in the order its list shows them
    webhook_url,        \* setup_webhook's parameter
    existing_webhooks,  \* its local: what get_webhooks() returned
    spc,            \* its position: idle, list, match, create, returned, raised
    sresult,        \* the value it returned
    serror,         \* the error it raised
    setups,         \* how many calls of setup_webhook have finished before
    flow,           \* the flow that runs: main or webhook_workflow_setup
    fpc,            \* its position: the index of its next call, branch,
                    \* get_report, returned, raised
    trace,          \* the calls it has made, each with its argument and outcome
    flocals,        \* its locals: study_uuid, scan_uuid, completed_scan
    fresult,        \* the value it returned
    ferror,         \* the error it raised
    callers,        \* calls of setup_webhook that run at the same time
    waiters         \* calls of wait_for_scan_completion that run at the same time

\* handle_webhook_notification's state
hookVars == <<webhook_payload, payload, report_uuid, wpc, wresult, werror, deliveries>>

\* wait_for_scan_completion's state
waitVars == <<scan_uuid, timeout, poll_interval, start_time, scan, pc, result, error>>

\* the state of a call of a resource client function
clientVars == <<fn, args, cpc, requests, cresult, cerror, finished>>

\* the state outside the wait and the webhook handler
\* the state of a call of setup_webhook, and the endpoints of the remote
setupVars == <<registered, webhook_url, existing_webhooks, spc, sresult, serror, setups>>

\* the state of a flow
flowVars == <<flow, fpc, trace, flocals, fresult, ferror>>

\* the state of the calls that run concurrently
concVars == <<callers, waiters>>

restVars == <<clientVars, setupVars, flowVars, concVars>>

vars == <<now, remote, calls, response, waitVars, hookVars, restVars>>

NoArgs == [uuid |-> Absent, product |-> Absent, url |-> Absent, filename |-> Absent]

NoPage == [count |-> 0, results |-> <<>>]

NoWebhook == [uuid |-> 0, url |-> Absent]

\* setup_webhook is not running, the remote has no endpoint
SetupIdle ==
    /\ registered = <<>>
    /\ webhook_url = Absent
    /\ existing_webhooks = NoPage
    /\ spc = "idle"
    /\ sresult = NoWebhook
    /\ serror = NoError
    /\ setups = 0

NoLocals ==
    [webhook |-> NoWebhook, study_uuid |-> Absent, scan_uuid |-> Absent,
     completed_scan |-> NoScan]

\* no flow runs
FlowIdle ==
    /\ flow = "none"
    /\ fpc = "idle"
    /\ trace = <<>>
    /\ flocals = NoLocals
    /\ fresult = NoResult
    /\ ferror = NoError

\* no calls run concurrently
ConcIdle ==
    /\ callers = <<>>
    /\ waiters = <<>>

\* no function of the resource client is being called
ClientIdle ==
    /\ fn = "none"
    /\ args = NoArgs
    /\ cpc = "idle"
    /\ requests = <<>>
    /\ cresult = NoResult
    /\ cerror = NoError
    /\ finished = <<>>

(* --------------------------- the remote ------------------------------- *)

\* the report a completed scan refers to
ReportOf(uuid) == IF uuid = "scan-1" THEN "report-1" ELSE "report-2"

\* the Scan the remote holds for uuid: report is set iff the status is COMPLETED
RemoteScan(uuid) ==
    [uuid |-> uuid,
     status |-> remote[uuid],
     report |-> IF remote[uuid] = "COMPLETED" THEN ReportOf(uuid) ELSE "null"]

\* the remote moves a scan to another status; the tracker has no part in it
RemoteStep ==
    /\ \E id \in ScanIds, s \in Statuses :
          /\ s # remote[id]
          /\ remote' = [remote EXCEPT ![id] = s]
    /\ UNCHANGED <<now, calls, response, scan_uuid, timeout, poll_interval,
                   start_time, scan, pc, result, error>>
    /\ UNCHANGED <<hookVars, restVars>>

(* ------------------------- basic/scan.py ------------------------------ *)

\* httpx.get(f"{api_url}/api/v2/scans/{uuid}/"): the response with this code
HttpGetScan(uuid, code) ==
    [status_code |-> code,
     json |-> IF code = 200 THEN RemoteScan(uuid) ELSE NoScan]

\* response.raise_for_status() raises unless the code is 2xx
RaisesForStatus(resp) == resp.status_code \div 100 # 2

HTTPStatusError(resp) == [type |-> "HTTPStatusError", status_code |-> resp.status_code]

\* mutant: the error reports the elapsed time in place of the configured timeout
TimeoutErrorWithElapsed ==
    [type |-> "TimeoutError", scan_uuid |-> scan_uuid, timeout |-> now - start_time]

\* scan.py:242, the error names the scan and the configured timeout
TimeoutError == [type |-> "TimeoutError", scan_uuid |-> scan_uuid, timeout |-> timeout]

\* mutant: the operands of the elapsed time are swapped
TimedOutSwapped == start_time - now > timeout

\* mutant: the deadline test is not strict
TimedOutAtDeadline == now - start_time >= timeout

\* scan.py:241, the deadline test
TimedOut == now - start_time > timeout

NumFetches == Cardinality({i \in 1 .. Len(calls) : calls[i].op = "get_scan"})

NumSleeps == Cardinality({i \in 1 .. Len(calls) : calls[i].op = "sleep"})

\* mutant: the loop sleeps before its first fetch
EnterSleepFirst ==
    /\ pc = "entry"
    /\ start_time' = now
    /\ pc' = "sleep"
    /\ UNCHANGED <<now, remote, calls, response, scan_uuid, timeout,
                   poll_interval, scan, result, error>>
    /\ UNCHANGED <<hookVars, restVars>>

\* scan.py:232
Enter ==
    /\ pc = "entry"
    /\ start_time' = now
    /\ pc' = "fetch"
    /\ UNCHANGED <<now, remote, calls, response, scan_uuid, timeout,
                   poll_interval, scan, result, error>>
    /\ UNCHANGED <<hookVars, restVars>>

\* mutant: a failed fetch is swallowed and retried after the next sleep
FetchRetry(resp) ==
    /\ pc' = "sleep"
    /\ UNCHANGED <<scan, error>>

\* get_scan raised: the error leaves wait_for_scan_completion, which has no handler
FetchRaise(resp) ==
    /\ error' = HTTPStatusError(resp)
    /\ pc' = "raised"
    /\ UNCHANGED scan

\* get_scan returned response.json(), bound to scan at scan.py:235
FetchReturn(resp) ==
    /\ scan' = resp.json
    /\ pc' = "check"
    /\ UNCHANGED error

\* scan.py:235, scan = get_scan(scan_uuid), with get_scan's body scan.py:148-153
Fetch ==
    /\ pc = "fetch"
    /\ Len(calls) < MaxCalls      \* never false in a run of the loop
    /\ \E d \in 0 .. MaxLatency, code \in StatusCodes :
          LET resp == HttpGetScan(scan_uuid, code) IN
          /\ now' = now + d
          /\ response' = resp
          /\ calls' = Append(calls, [op |-> "get_scan", uuid |-> scan_uuid])
          /\ IF RaisesForStatus(resp) THEN FetchRaise(resp) ELSE FetchReturn(resp)
    /\ UNCHANGED <<remote, scan_uuid, timeout, poll_interval, start_time, result>>
    /\ UNCHANGED <<hookVars, restVars>>

\* mutant: the deadline is tested before the status
CheckDeadlineFirst ==
    /\ pc = "check"
    /\ IF now - start_time > timeout
         THEN /\ error' = TimeoutError
              /\ pc' = "raised"
              /\ UNCHANGED result
         ELSE IF scan.status \in TERMINAL
                THEN /\ result' = scan
                     /\ pc' = "returned"
                     /\ UNCHANGED error
                ELSE /\ pc' = "sleep"
                     /\ UNCHANGED <<result, error>>
    /\ UNCHANGED <<now, remote, calls, response, scan_uuid, timeout,
                   poll_interval, start_time, scan>>
    /\ UNCHANGED <<hookVars, restVars>>

\* mutant: a wait that runs out of time cancels the scan before it raises
CheckCancelsOnTimeout ==
    /\ pc = "check"
    /\ IF scan.status \in TERMINAL
         THEN /\ result' = scan
              /\ pc' = "returned"
              /\ UNCHANGED <<error, calls>>
         ELSE IF TimedOut
                THEN /\ calls' = Append(calls, [op |-> "delete_scan", uuid |-> scan_uuid])
                     /\ error' = TimeoutError
                     /\ pc' = "raised"
                     /\ UNCHANGED result
                ELSE /\ pc' = "sleep"
                     /\ UNCHANGED <<result, error, calls>>
    /\ UNCHANGED <<now, remote, response, scan_uuid, timeout,
                   poll_interval, start_time, scan>>
    /\ UNCHANGED <<hookVars, restVars>>

\* scan.py:236-242, the status test and then the deadline test
Check ==
    /\ pc = "check"
    /\ IF scan.status \in TERMINAL
         THEN /\ result' = scan
              /\ pc' = "returned"
              /\ UNCHANGED error
         ELSE IF TimedOut
                THEN /\ error' = TimeoutError
                     /\ pc' = "raised"
                     /\ UNCHANGED result
                ELSE /\ pc' = "sleep"
                     /\ UNCHANGED <<result, error>>
    /\ UNCHANGED <<now, remote, calls, response, scan_uuid, timeout,
                   poll_interval, start_time, scan>>
    /\ UNCHANGED <<hookVars, restVars>>

\* mutant: the last sleep is cut to what is left of the timeout budget
SleepShortened ==
    /\ pc = "sleep"
    /\ LET left == timeout - (now - start_time)
           seconds == IF left < poll_interval THEN left ELSE poll_interval IN
       /\ now' = now + seconds
       /\ calls' = Append(calls, [op |-> "sleep", seconds |-> seconds])
    /\ pc' = "fetch"
    /\ UNCHANGED <<remote, response, scan_uuid, timeout, poll_interval,
                   start_time, scan, result, error>>
    /\ UNCHANGED <<hookVars, restVars>>

\* mutant: the start instant is taken again after every sleep
EnterAgainAfterSleep ==
    /\ pc = "sleep"
    /\ now' = now + poll_interval
    /\ calls' = Append(calls, [op |-> "sleep", seconds |-> poll_interval])
    /\ start_time' = now + poll_interval
    /\ pc' = "fetch"
    /\ UNCHANGED <<remote, response, scan_uuid, timeout, poll_interval,
                   scan, result, error>>
    /\ UNCHANGED <<hookVars, restVars>>

\* scan.py:244, time.sleep(poll_interval)
Sleep ==
    /\ pc = "sleep"
    /\ now' = now + poll_interval
    /\ calls' = Append(calls, [op |-> "sleep", seconds |-> poll_interval])
    /\ pc' = "fetch"
    /\ UNCHANGED <<remote, response, scan_uuid, timeout, poll_interval,
                   start_time, scan, result, error>>
    /\ UNCHANGED <<hookVars, restVars>>

\* the steps of wait_for_scan_completion
WaitNext == Enter \/ Fetch \/ Check \/ Sleep

Init ==
    /\ now \in 0 .. MaxStartClock
    /\ remote \in [ScanIds -> Statuses]
    /\ calls = <<>>
    /\ response = NoResponse
    /\ scan_uuid \in ScanIds
    /\ timeout \in Timeouts
    /\ poll_interval \in PollIntervals
    /\ start_time = 0
    /\ scan = NoScan
    /\ pc = "entry"
    /\ result = NoScan
    /\ error = NoError
    /\ webhook_payload = NoBody
    /\ payload = NoPayload
    /\ report_uuid = None
    /\ wpc = "idle"
    /\ wresult = NoResult
    /\ werror = NoError
    /\ deliveries = <<>>
    /\ ClientIdle
    /\ SetupIdle
    /\ FlowIdle
    /\ ConcIdle

Next == WaitNext \/ RemoteStep

Spec == Init /\ [][Next]_vars

\* the loop is a running sequential program: a step it can take, it takes
\* (httpx.get returns or raises, time.sleep returns)
SpecLive == Init /\ [][Next]_vars /\ WF_vars(WaitNext)


(* ------------------------- basic/reports.py --------------------------- *)

\* reports.py:113-116, httpx.get(f"{api_url}/api/v2/reports/{uuid}/"); a
\* success response carries the report (uuid, version, study, ...)
HttpGetReport(uuid, code) ==
    [status_code |-> code,
     json |-> IF code = 200
                THEN [uuid |-> uuid, status |-> "report", report |-> uuid]
                ELSE NoScan]

(* ------ flows/create_scan_and_retrieve_inference_results_with_webhooks.py ------ *)

\* mutant: the fields are read with payload.get, which raises nothing
ParseErrorWithoutKeyError(body) ==
    IF body.kind = "invalid_utf8" THEN [type |-> "UnicodeDecodeError"]
    ELSE IF body.kind = "invalid_json" THEN [type |-> "JSONDecodeError"]
    ELSE NoError

\* lines 157-159: the error, if any, of webhook_payload.decode('utf-8'),
\* json.loads, payload['scan_id'] and payload['status'], in that order
ParseError(body) ==
    IF body.kind = "invalid_utf8" THEN [type |-> "UnicodeDecodeError"]
    ELSE IF body.kind = "invalid_json" THEN [type |-> "JSONDecodeError"]
    ELSE IF body.kind = "non_object" THEN [type |-> "TypeError"]
    ELSE IF body.json.scan_id = Absent THEN [type |-> "KeyError", key |-> "scan_id"]
    ELSE IF body.json.status = Absent THEN [type |-> "KeyError", key |-> "status"]
    ELSE NoError

\* line 165, payload.get('report', {}): the default stands in for an absent
\* key only, a null report is returned as None
ReportInfo(p) ==
    IF p.report.kind = "absent" THEN [kind |-> "object", uuid |-> Absent] ELSE p.report

\* line 166, report_info.get('uuid') of a dict
ReportUuid(report_info) ==
    IF report_info.uuid = Absent THEN None ELSE report_info.uuid

\* lines 170, Python's truth value of a uuid
Truthy(v) == v \notin {None, ""}

\* lines 191-195
SuccessResult ==
    [scan_uuid |-> payload.scan_id, report_uuid |-> report_uuid, status |-> "SUCCESS"]

\* line 198
NoReportResult == [scan_uuid |-> payload.scan_id, status |-> "NO_REPORT"]

\* line 207
FailedResult == [scan_uuid |-> payload.scan_id, status |-> "FAILED"]

\* mutant: an unexpected status is reported under a fixed name
UnexpectedResultRenamed == [scan_uuid |-> payload.scan_id, status |-> "UNKNOWN"]

\* line 211
UnexpectedResult == [scan_uuid |-> payload.scan_id, status |-> payload.status]

\* lines 156-162 with the handlers 213-218, which print and raise again
HandleParse ==
    /\ wpc = "parse"
    /\ LET e == ParseError(webhook_payload) IN
       IF e.type # "none"
         THEN /\ werror' = e
              /\ wpc' = "raised"
              /\ UNCHANGED payload
         ELSE /\ payload' = webhook_payload.json
              /\ wpc' = "branch"
              /\ UNCHANGED werror
    /\ UNCHANGED <<now, remote, calls, response, webhook_payload, report_uuid, wresult>>
    /\ UNCHANGED <<waitVars, deliveries, restVars>>

\* mutant: the handler remembers what it handled and answers a redelivery
\* DUPLICATE without doing the work again
HandleBranchDeduplicated ==
    /\ wpc = "branch"
    /\ IF deliveries # <<>>
         THEN /\ wresult' = [scan_uuid |-> payload.scan_id, status |-> "DUPLICATE"]
              /\ wpc' = "returned"
              /\ UNCHANGED <<report_uuid, werror>>
         ELSE IF payload.status = "COMPLETED" /\ ReportInfo(payload).kind # "null"
                                             /\ Truthy(ReportUuid(ReportInfo(payload)))
                THEN /\ report_uuid' = ReportUuid(ReportInfo(payload))
                     /\ wpc' = "get_report"
                     /\ UNCHANGED <<wresult, werror>>
                ELSE IF payload.status = "FAILED"
                       THEN /\ wpc' = "get_scan"
                            /\ UNCHANGED <<report_uuid, wresult, werror>>
                       ELSE /\ wresult' = UnexpectedResult
                            /\ wpc' = "returned"
                            /\ UNCHANGED <<report_uuid, werror>>
    /\ UNCHANGED <<now, remote, calls, response, webhook_payload, payload>>
    /\ UNCHANGED <<waitVars, deliveries, restVars>>

\* lines 164-170, 196-200 and 209-211: the branch on status
HandleBranch ==
    /\ wpc = "branch"
    /\ IF payload.status = "COMPLETED"
         THEN LET report_info == ReportInfo(payload) IN
              IF report_info.kind = "null"
                THEN \* line 166: None has no attribute get
                     /\ werror' = [type |-> "AttributeError"]
                     /\ wpc' = "raised"
                     /\ UNCHANGED <<report_uuid, wresult>>
                ELSE /\ report_uuid' = ReportUuid(report_info)
                     /\ IF Truthy(ReportUuid(report_info))
                          THEN /\ wpc' = "get_report"
                               /\ UNCHANGED wresult
                          ELSE /\ wresult' = NoReportResult
                               /\ wpc' = "returned"
                     /\ UNCHANGED werror
         ELSE IF payload.status = "FAILED"
                THEN /\ wpc' = "get_scan"
                     /\ UNCHANGED <<report_uuid, wresult, werror>>
                ELSE /\ wresult' = UnexpectedResult
                     /\ wpc' = "returned"
                     /\ UNCHANGED <<report_uuid, werror>>
    /\ UNCHANGED <<now, remote, calls, response, webhook_payload, payload>>
    /\ UNCHANGED <<waitVars, deliveries, restVars>>

\* mutant: a failed get_report is swallowed and SUCCESS returned all the same
HandleGetReportSwallowed ==
    /\ wpc = "get_report"
    /\ \E code \in StatusCodes :
          /\ response' = HttpGetReport(report_uuid, code)
          /\ calls' = Append(calls, [op |-> "get_report", uuid |-> report_uuid])
          /\ wresult' = SuccessResult
          /\ wpc' = "returned"
    /\ UNCHANGED <<now, remote, webhook_payload, payload, report_uuid, werror>>
    /\ UNCHANGED <<waitVars, deliveries, restVars>>

\* lines 172-195: report = get_report(report_uuid), reports.py:113-118; an
\* HTTP error is neither a JSONDecodeError nor a KeyError and leaves the
\* handler. Lines 174-189 only print fields of the fetched report, which a
\* success response is taken to carry.
HandleGetReport ==
    /\ wpc = "get_report"
    /\ \E code \in StatusCodes :
          LET resp == HttpGetReport(report_uuid, code) IN
          /\ response' = resp
          /\ calls' = Append(calls, [op |-> "get_report", uuid |-> report_uuid])
          /\ IF RaisesForStatus(resp)
               THEN /\ werror' = HTTPStatusError(resp)
                    /\ wpc' = "raised"
                    /\ UNCHANGED wresult
               ELSE /\ wresult' = SuccessResult
                    /\ wpc' = "returned"
                    /\ UNCHANGED werror
    /\ UNCHANGED <<now, remote, webhook_payload, payload, report_uuid>>
    /\ UNCHANGED <<waitVars, deliveries, restVars>>

\* the scan that get_scan returns, with the state detail of a failure when
\* the remote gives one (line 204 reads it with scan_details.get('state'))
ScanDetails(uuid, state) ==
    [uuid |-> uuid, status |-> remote[uuid],
     report |-> IF remote[uuid] = "COMPLETED" THEN ReportOf(uuid) ELSE "null",
     state |-> state]

\* mutant: a failed get_scan is swallowed and FAILED returned all the same
HandleGetScanSwallowed ==
    /\ wpc = "get_scan"
    /\ \E code \in StatusCodes :
          /\ response' = HttpGetScan(payload.scan_id, code)
          /\ calls' = Append(calls, [op |-> "get_scan", uuid |-> payload.scan_id])
          /\ wresult' = FailedResult
          /\ wpc' = "returned"
    /\ UNCHANGED <<now, remote, webhook_payload, payload, report_uuid, werror>>
    /\ UNCHANGED <<waitVars, deliveries, restVars>>

\* lines 203-207: scan_details = get_scan(scan_uuid), scan.py:148-153; the
\* state detail is printed when there is one, and FAILED returned either way
HandleGetScan ==
    /\ wpc = "get_scan"
    /\ \E code \in StatusCodes, state \in {Absent, "analysis error"} :
          LET resp == [status_code |-> code,
                       json |-> IF code = 200
                                  THEN ScanDetails(payload.scan_id, state)
                                  ELSE NoScan] IN
          /\ response' = resp
          /\ calls' = Append(calls, [op |-> "get_scan", uuid |-> payload.scan_id])
          /\ IF RaisesForStatus(resp)
               THEN /\ werror' = HTTPStatusError(resp)
                    /\ wpc' = "raised"
                    /\ UNCHANGED wresult
               ELSE /\ wresult' = FailedResult
                    /\ wpc' = "returned"
                    /\ UNCHANGED werror
    /\ UNCHANGED <<now, remote, webhook_payload, payload, report_uuid>>
    /\ UNCHANGED <<waitVars, deliveries, restVars>>

\* lines 96-97 and 115-120: the scans the application has submitted, whose
\* notifications it waits for
TrackedScans == {"scan-1"}

\* what a finished run of the handler leaves to its caller
Delivery ==
    [calls |-> calls, response |-> response, outcome |-> wpc,
     wresult |-> wresult, werror |-> werror]

\* line 127 again: the sender delivers the same body once more, and the
\* handler is called afresh; its locals (156-166) are new to each call and
\* the module holds no variable that it writes
Redeliver ==
    /\ wpc \in {"returned", "raised"}
    /\ Len(deliveries) + 1 < MaxDeliveries
    /\ deliveries' = Append(deliveries, Delivery)
    /\ calls' = <<>>
    /\ response' = NoResponse
    /\ payload' = NoPayload
    /\ report_uuid' = None
    /\ wpc' = "parse"
    /\ wresult' = NoResult
    /\ werror' = NoError
    /\ UNCHANGED <<now, remote, webhook_payload>>
    /\ UNCHANGED <<waitVars, restVars>>

\* handle_webhook_notification is called with a body
InitWebhook ==
    /\ now = 0
    /\ remote \in [ScanIds -> Statuses]
    /\ calls = <<>>
    /\ response = NoResponse
    /\ scan_uuid = "none"
    /\ timeout = 0
    /\ poll_interval = 0
    /\ start_time = 0
    /\ scan = NoScan
    /\ pc = "idle"
    /\ result = NoScan
    /\ error = NoError
    /\ webhook_payload \in Bodies
    /\ payload = NoPayload
    /\ report_uuid = None
    /\ wpc = "parse"
    /\ wresult = NoResult
    /\ werror = NoError
    /\ deliveries = <<>>
    /\ ClientIdle
    /\ SetupIdle
    /\ FlowIdle
    /\ ConcIdle

NextWebhook ==
    HandleParse \/ HandleBranch \/ HandleGetReport \/ HandleGetScan \/ Redeliver

SpecWebhook == InitWebhook /\ [][NextWebhook]_vars

(* ------------------- basic/*.py: the resource client ------------------ *)

\* what one function of the client does, read off its body: the httpx
\* function it calls, the path it composes after api_url (a placeholder
\* stands for a parameter), the scheme of its Authorization header, what it
\* sends (nothing, params=, json= or files=), what it returns (response.json(),
\* nothing, or the path of the file it wrote), whether it opens a local file
\* before the request and whether it passes follow_redirects=True
Fn(method, path, scheme, sends, returns) ==
    [method |-> method, path |-> path, scheme |-> scheme, sends |-> sends,
     returns |-> returns, opens |-> FALSE, redirects |-> FALSE]

\* basic/study.py
StudyClient ==
    [get_studies  |-> Fn("GET", <<"/api/v2/studies/">>, "Bearer", "params", "json"),
     create_study |-> Fn("POST", <<"/api/v2/studies/">>, "Bearer", "json", "json"),
     get_study    |-> Fn("GET", <<"/api/v2/studies/", "{uuid}", "/">>, "Bearer", "nothing", "json"),
     update_study |-> Fn("PATCH", <<"/api/v2/studies/", "{uuid}", "/">>, "Bearer", "json", "json"),
     delete_study |-> Fn("DELETE", <<"/api/v2/studies/", "{uuid}", "/">>, "Bearer", "nothing", "None")]

\* basic/dicom.py
DicomClient ==
    [upload_dicom |->
        [Fn("POST", <<"/api/v2/dicoms/">>, "Bearer", "files", "json") EXCEPT !.opens = TRUE],
     get_dicoms   |-> Fn("GET", <<"/api/v2/dicoms/">>, "Bearer", "params", "json"),
     get_dicom    |-> Fn("GET", <<"/api/v2/dicoms/", "{uuid}", "/">>, "Bearer", "nothing", "json"),
     download_dicom_file |->
        [Fn("GET", <<"/api/v2/dicoms/file/", "{uuid}", "/", "{filename}", "/">>,
            "Bearer", "nothing", "path") EXCEPT !.redirects = TRUE],
     delete_dicom |-> Fn("DELETE", <<"/api/v2/dicoms/", "{uuid}", "/">>, "Bearer", "nothing", "None"),
     idempotent_dicom_upload |->
        [Fn("POST", <<"/api/v2/idempotent_dicom/">>, "Bearer", "files", "json")
            EXCEPT !.opens = TRUE]]

\* mutant: create_scan sends the caller's API token under the Token scheme
ScanClientTokenScheme ==
    [create_scan |-> Fn("POST", <<"/api/v2/scans/">>, "Token", "json", "json"),
     get_scans   |-> Fn("GET", <<"/api/v2/scans/">>, "Bearer", "params", "json"),
     get_scan    |-> Fn("GET", <<"/api/v2/scans/", "{uuid}", "/">>, "Bearer", "nothing", "json"),
     delete_scan |-> Fn("DELETE", <<"/api/v2/scans/", "{uuid}", "/">>, "Bearer", "nothing", "None")]

\* basic/scan.py
ScanClient ==
    [create_scan |-> Fn("POST", <<"/api/v2/scans/">>, "Bearer", "json", "json"),
     get_scans   |-> Fn("GET", <<"/api/v2/scans/">>, "Bearer", "params", "json"),
     get_scan    |-> Fn("GET", <<"/api/v2/scans/", "{uuid}", "/">>, "Bearer", "nothing", "json"),
     delete_scan |-> Fn("DELETE", <<"/api/v2/scans/", "{uuid}", "/">>, "Bearer", "nothing", "None")]

\* basic/reports.py
ReportsClient ==
    [get_reports     |-> Fn("GET", <<"/api/v2/reports/">>, "Token", "params", "json"),
     get_report      |-> Fn("GET", <<"/api/v2/reports/", "{uuid}", "/">>, "Token", "nothing", "json"),
     get_report_html |-> Fn("GET", <<"/api/v2/reports/", "{uuid}", "/html/">>, "Token", "nothing", "json"),
     get_echogpt_responses |-> Fn("GET", <<"/api/v2/echogpt/report/">>, "Token", "nothing", "json"),
     get_echogpt_response |->
        Fn("GET", <<"/api/v2/echogpt/report/", "{uuid}", "/">>, "Token", "nothing", "json"),
     create_user_measurement |-> Fn("POST", <<"/api/v2/measurements/">>, "Token", "json", "json"),
     get_api_version |-> Fn("GET", <<"/api/v2/version">>, "Token", "nothing", "json")]

\* basic/all_studies.py
AllStudiesClient ==
    [get_all_studies_with_measurements |->
        Fn("GET", <<"/api/v2/all_studies/">>, "Token", "params", "json"),
     get_study_with_measurements |->
        Fn("GET", <<"/api/v2/all_studies/", "{uuid}", "/">>, "Token", "nothing", "json"),
     get_study_metrics |->
        Fn("GET", <<"/api/v2/all_studies/metrics/">>, "Token", "nothing", "json"),
     get_filter_metadata |->
        Fn("GET", <<"/api/v2/all_studies/filters/metadata/">>, "Token", "nothing", "json")]

\* basic/webhooks.py
WebhooksClient ==
    [create_webhook |-> Fn("POST", <<"/api/v2/webhook/">>, "Token", "json", "json"),
     get_webhooks   |-> Fn("GET", <<"/api/v2/webhook/">>, "Token", "params", "json"),
     get_webhook    |-> Fn("GET", <<"/api/v2/webhook/", "{uuid}", "/">>, "Token", "nothing", "json"),
     update_webhook |-> Fn("PATCH", <<"/api/v2/webhook/", "{uuid}", "/">>, "Token", "json", "json"),
     delete_webhook |-> Fn("DELETE", <<"/api/v2/webhook/", "{uuid}", "/">>, "Token", "nothing", "None")]

\* the module a function of the client is defined in
Modules ==
    [study |-> StudyClient, dicom |-> DicomClient, scan |-> ScanClient,
     reports |-> ReportsClient, all_studies |-> AllStudiesClient,
     webhooks |-> WebhooksClient]

\* the functions that send an HTTP request themselves
HttpFunctions == UNION {DOMAIN Modules[m] : m \in DOMAIN Modules}

ModuleOf(f) == CHOOSE m \in DOMAIN Modules : f \in DOMAIN Modules[m]

Client(f) == Modules[ModuleOf(f)][f]

\* how many redirects of one download are followed
MaxRedirects == 2

\* how many times a function is called with the same arguments
MaxClientCalls == 2

\* uuids of entities other than scans
Uuids == {"uuid-1", "uuid-2"}

\* scan.py:16, the products, with the two ways of giving none
Products == {None, "", "ECHOMEASURE", "CARDIOVISION"}

Urls == {"https://a.example/hook", "https://b.example/hook"}

\* the status codes of a response, a redirect among them
ClientStatusCodes == StatusCodes \cup {302}

\* every function of the client: get_scan_progress has no request of its own
ClientFunctions == HttpFunctions \cup {"get_scan_progress"}

\* mutant: get_scan_progress reads the list of scans
CalleeListsScans(f) == IF f = "get_scan_progress" THEN "get_scans" ELSE f

\* scan.py:276, get_scan_progress hands its argument to get_scan
Callee(f) == IF f = "get_scan_progress" THEN "get_scan" ELSE f

\* the arguments a function may be called with
ArgsOf(f) ==
    LET ids == IF f \in DOMAIN ScanClient \cup {"get_scan_progress"}
                 THEN ScanIds ELSE Uuids
        takesUuid == \E i \in DOMAIN Client(Callee(f)).path :
                        Client(Callee(f)).path[i] = "{uuid}" IN
    IF f = "create_scan"
      THEN {[NoArgs EXCEPT !.uuid = u, !.product = p] : u \in Uuids, p \in Products}
    ELSE IF f = "create_webhook"
      THEN {[NoArgs EXCEPT !.url = u] : u \in Urls}
    ELSE IF f = "update_webhook"
      THEN {[NoArgs EXCEPT !.uuid = u, !.url = w] : u \in Uuids, w \in Urls}
    ELSE IF f = "download_dicom_file"
      THEN {[NoArgs EXCEPT !.uuid = u, !.filename = "echo.dcm"] : u \in Uuids}
    ELSE IF takesUuid
      THEN {[NoArgs EXCEPT !.uuid = u] : u \in ids}
    ELSE {NoArgs}

\* the f-string of the URL after api_url: the parameters fill the placeholders
Path(f, a) ==
    [i \in DOMAIN Client(f).path |->
        IF Client(f).path[i] = "{uuid}" THEN a.uuid
        ELSE IF Client(f).path[i] = "{filename}" THEN a.filename
        ELSE Client(f).path[i]]

\* the bodies of create_study, update_study and create_user_measurement are
\* the caller's fields
CallerData == "<the caller's fields>"

\* mutant: create_scan always sends a product field
CreateScanDataAlwaysProduct(study_uuid, product) ==
    [study |-> study_uuid, product |-> product]

\* scan.py:46-50
CreateScanData(study_uuid, product) ==
    [study |-> study_uuid,
     product |-> IF Truthy(product) THEN product ELSE Absent]

\* mutant: update_webhook sends a token along with the url
DataWithToken(f, a) ==
    IF f = "create_scan" THEN CreateScanData(a.uuid, a.product)
    ELSE IF f = "create_webhook" THEN [url |-> a.url]
    ELSE IF f = "update_webhook" THEN [url |-> a.url, token |-> "new-token"]
    ELSE IF Client(f).sends = "json" THEN CallerData
    ELSE Absent

\* the json= argument of the request
Data(f, a) ==
    IF f = "create_scan" THEN CreateScanData(a.uuid, a.product)
    ELSE IF f \in {"create_webhook", "update_webhook"} THEN [url |-> a.url]
    ELSE IF Client(f).sends = "json" THEN CallerData
    ELSE Absent

\* the request a function sends
Request(f, a) ==
    [method |-> Client(f).method, path |-> Path(f, a),
     authorization |-> Client(f).scheme, json |-> Data(f, a)]

\* what the remote answers to a request it accepts
RemoteAnswer(f, a) ==
    IF f = "get_scan" THEN RemoteScan(a.uuid) ELSE [answer_to |-> f, uuid |-> a.uuid]

HttpResponse(f, a, code) ==
    [status_code |-> code,
     json |-> IF code = 200 THEN RemoteAnswer(f, a) ELSE NoScan]

\* wait_for_scan_completion is not running
WaitIdle ==
    /\ scan_uuid = "none"
    /\ timeout = 0
    /\ poll_interval = 0
    /\ start_time = 0
    /\ scan = NoScan
    /\ pc = "idle"
    /\ result = NoScan
    /\ error = NoError

\* handle_webhook_notification is not running
HookIdle ==
    /\ webhook_payload = NoBody
    /\ payload = NoPayload
    /\ report_uuid = None
    /\ wpc = "idle"
    /\ wresult = NoResult
    /\ werror = NoError
    /\ deliveries = <<>>

\* dicom.py:38 and 267, open(file_path, 'rb') ahead of the request: the file
\* may not be there, and then the error of open leaves the function
ClientOpenFile ==
    /\ cpc = "call"
    /\ Client(Callee(fn)).opens
    /\ \/ /\ cpc' = "opened"
          /\ UNCHANGED cerror
       \/ /\ cerror' = [type |-> "FileNotFoundError"]
          /\ cpc' = "raised"
    /\ UNCHANGED <<now, remote, calls, response, fn, args, requests, cresult, finished>>
    /\ UNCHANGED <<waitVars, hookVars, setupVars, flowVars, concVars>>

\* mutant: a request answered with an error status is sent once more
ClientAnsweredRetry(f, resp) ==
    IF ~RaisesForStatus(resp)
      THEN /\ cresult' = resp.json
           /\ cpc' = "returned"
           /\ UNCHANGED cerror
      ELSE /\ cpc' = IF Client(f).opens THEN "opened" ELSE "call"
           /\ UNCHANGED <<cresult, cerror>>

\* what follows the response in every function: with follow_redirects=True
\* (dicom.py:180) httpx goes after a redirect itself; raise_for_status()
\* raises unless the code is 2xx; then the return statement
ClientAnswered(f, resp) ==
    IF resp.status_code = 302 /\ Client(f).redirects
      THEN /\ cpc' = "redirected"
           /\ UNCHANGED <<cresult, cerror>>
    ELSE IF RaisesForStatus(resp)
      THEN /\ cerror' = HTTPStatusError(resp)
           /\ cpc' = "raised"
           /\ UNCHANGED cresult
    ELSE IF Client(f).returns = "path"
      THEN /\ cpc' = "write"
           /\ UNCHANGED <<cresult, cerror>>
    ELSE /\ cresult' = IF Client(f).returns = "json" THEN resp.json ELSE None
         /\ cpc' = "returned"
         /\ UNCHANGED cerror

\* the one httpx call of a function (for get_scan_progress, of get_scan)
ClientRequest ==
    /\ \/ cpc = "call" /\ ~Client(Callee(fn)).opens
       \/ cpc = "opened"
    /\ \E code \in ClientStatusCodes :
          LET f == Callee(fn)
              resp == HttpResponse(f, args, code) IN
          /\ requests' = Append(requests, Request(f, args))
          /\ response' = resp
          /\ ClientAnswered(f, resp)
    /\ UNCHANGED <<now, remote, calls, fn, args, finished>>
    /\ UNCHANGED <<waitVars, hookVars, setupVars, flowVars, concVars>>

\* dicom.py:180, httpx sends a GET to the location the redirect names; it
\* keeps the Authorization header only when the location is of the same origin
ClientFollowRedirect ==
    /\ cpc = "redirected"
    /\ \E code \in ClientStatusCodes, auth \in {Client(fn).scheme, Absent} :
          LET resp == HttpResponse(fn, args, code) IN
          /\ code = 302 => Len(requests) < MaxRedirects
          /\ requests' = Append(requests,
                [method |-> "GET", path |-> <<"<Location>">>,
                 authorization |-> auth, json |-> Absent])
          /\ response' = resp
          /\ ClientAnswered(fn, resp)
    /\ UNCHANGED <<now, remote, calls, fn, args, finished>>
    /\ UNCHANGED <<waitVars, hookVars, setupVars, flowVars, concVars>>

\* dicom.py:184-190, the downloaded content is written under output_path and
\* the path of the file returned; mkdir or open may fail
ClientWriteFile ==
    /\ cpc = "write"
    /\ \/ /\ cresult' = <<"<output_path>", "/", args.filename>>
          /\ cpc' = "returned"
          /\ UNCHANGED cerror
       \/ /\ cerror' = [type |-> "OSError"]
          /\ cpc' = "raised"
          /\ UNCHANGED cresult
    /\ UNCHANGED <<now, remote, calls, response, fn, args, requests, finished>>
    /\ UNCHANGED <<waitVars, hookVars, setupVars, flowVars, concVars>>

\* what a finished call leaves to its caller
ClientCall ==
    [requests |-> requests, response |-> response, outcome |-> cpc,
     cresult |-> cresult, cerror |-> cerror]

\* the caller calls the function again with the same arguments
ClientCallAgain ==
    /\ cpc \in {"returned", "raised"}
    /\ Len(finished) + 1 < MaxClientCalls
    /\ finished' = Append(finished, ClientCall)
    /\ requests' = <<>>
    /\ response' = NoResponse
    /\ cresult' = NoResult
    /\ cerror' = NoError
    /\ cpc' = "call"
    /\ UNCHANGED <<now, remote, calls, fn, args>>
    /\ UNCHANGED <<waitVars, hookVars, setupVars, flowVars, concVars>>

\* a function of the client is called
InitClient ==
    /\ now = 0
    /\ remote \in [ScanIds -> Statuses]
    /\ calls = <<>>
    /\ response = NoResponse
    /\ WaitIdle
    /\ HookIdle
    /\ SetupIdle
    /\ FlowIdle
    /\ ConcIdle
    /\ fn \in ClientFunctions
    /\ args \in ArgsOf(fn)
    /\ cpc = "call"
    /\ requests = <<>>
    /\ cresult = NoResult
    /\ cerror = NoError
    /\ finished = <<>>

ClientNext ==
    \/ ClientOpenFile
    \/ ClientRequest
    \/ ClientFollowRedirect
    \/ ClientWriteFile
    \/ ClientCallAgain

NextClient == ClientNext \/ RemoteStep

SpecClient == InitClient /\ [][NextClient]_vars

(* ------------- the tracker: the wait and get_scan_progress ------------ *)

\* get_scan_progress is called
InitProgress ==
    /\ InitClient
    /\ fn = "get_scan_progress"

\* the tracker is used one way or the other
InitTracker == Init \/ InitProgress

NextTracker == WaitNext \/ ClientRequest \/ ClientCallAgain \/ RemoteStep

SpecTracker == InitTracker /\ [][NextTracker]_vars

(* ------------------- setup_webhook and the remote's endpoints --------- *)

\* how many endpoints the remote holds at the start
MaxEndpoints == 3

\* how many times setup_webhook is called, one call after the other
MaxSetups == 2

\* webhooks.py:60-61: the list of endpoints is paged, and get_webhooks()
\* called with no page and no page_size gets the first page, of the size the
\* remote chooses
PageSize == 2

EndpointUrls == Urls \cup {"https://c.example/hook"}

\* the registrations of url among the endpoints ws
Registrations(ws, url) == {i \in 1 .. Len(ws) : ws[i].url = url}

\* what the remote may hold at the start: no URL registered twice
InitialEndpoints ==
    {ws \in UNION {[1 .. n -> [uuid : 1 .. MaxEndpoints, url : EndpointUrls]] :
                      n \in 0 .. MaxEndpoints} :
        /\ \A i \in 1 .. Len(ws) : ws[i].uuid = i
        /\ \A u \in EndpointUrls : Cardinality(Registrations(ws, u)) <= 1}

\* the answer to GET /api/v2/webhook/ without parameters
FirstPage ==
    [count |-> Len(registered),
     results |-> SubSeq(registered, 1,
                        IF Len(registered) < PageSize THEN Len(registered) ELSE PageSize)]

\* lines 44-45: the first listed endpoint whose url is webhook_url, 0 if none
FirstMatch(page) ==
    IF Registrations(page.results, webhook_url) = {} THEN 0
    ELSE CHOOSE i \in Registrations(page.results, webhook_url) :
            \A j \in Registrations(page.results, webhook_url) : i <= j

\* line 43, existing_webhooks = get_webhooks(), webhooks.py:91-97
SetupList ==
    /\ spc = "list"
    /\ requests' = Append(requests, Request("get_webhooks", NoArgs))
    /\ \E code \in StatusCodes :
          LET resp == [status_code |-> code,
                       json |-> IF code = 200 THEN FirstPage ELSE NoPage] IN
          /\ response' = resp
          /\ IF RaisesForStatus(resp)
               THEN /\ serror' = HTTPStatusError(resp)
                    /\ spc' = "raised"
                    /\ UNCHANGED existing_webhooks
               ELSE /\ existing_webhooks' = resp.json
                    /\ spc' = "match"
                    /\ UNCHANGED serror
    /\ UNCHANGED <<registered, webhook_url, sresult, setups>>
    /\ UNCHANGED <<now, remote, calls, fn, args, cpc, cresult, cerror, finished>>
    /\ UNCHANGED <<waitVars, hookVars, flowVars, concVars>>

\* lines 44-47, the loop over existing_webhooks.get('results', [])
SetupMatch ==
    /\ spc = "match"
    /\ IF FirstMatch(existing_webhooks) # 0
         THEN /\ sresult' = existing_webhooks.results[FirstMatch(existing_webhooks)]
              /\ spc' = "returned"
         ELSE /\ spc' = "create"
              /\ UNCHANGED sresult
    /\ UNCHANGED <<registered, webhook_url, existing_webhooks, serror, setups>>
    /\ UNCHANGED <<now, remote, calls, response, clientVars>>
    /\ UNCHANGED <<waitVars, hookVars, flowVars, concVars>>

\* lines 50-56, webhook = create_webhook(webhook_url), webhooks.py:38-46; the
\* remote registers what it is sent (it does not refuse a URL it already
\* holds) and lists the new endpoint first or last
SetupCreate ==
    /\ spc = "create"
    /\ requests' = Append(requests,
                          Request("create_webhook", [NoArgs EXCEPT !.url = webhook_url]))
    /\ \E code \in StatusCodes :
          LET webhook == [uuid |-> Len(registered) + 1, url |-> webhook_url]
              resp == [status_code |-> code,
                       json |-> IF code = 200 THEN webhook ELSE NoWebhook] IN
          /\ response' = resp
          /\ IF RaisesForStatus(resp)
               THEN /\ serror' = HTTPStatusError(resp)
                    /\ spc' = "raised"
                    /\ UNCHANGED <<registered, sresult>>
               ELSE /\ registered' \in {<<webhook>> \o registered,
                                        Append(registered, webhook)}
                    /\ sresult' = resp.json
                    /\ spc' = "returned"
                    /\ UNCHANGED serror
    /\ UNCHANGED <<webhook_url, existing_webhooks, setups>>
    /\ UNCHANGED <<now, remote, calls, fn, args, cpc, cresult, cerror, finished>>
    /\ UNCHANGED <<waitVars, hookVars, flowVars, concVars>>

\* line 30 again: setup_webhook is called once more with the same URL
SetupAgain ==
    /\ spc \in {"returned", "raised"}
    /\ setups + 1 < MaxSetups
    /\ setups' = setups + 1
    /\ existing_webhooks' = NoPage
    /\ sresult' = NoWebhook
    /\ serror' = NoError
    /\ requests' = <<>>
    /\ response' = NoResponse
    /\ spc' = "list"
    /\ UNCHANGED <<registered, webhook_url>>
    /\ UNCHANGED <<now, remote, calls, fn, args, cpc, cresult, cerror, finished>>
    /\ UNCHANGED <<waitVars, hookVars, flowVars, concVars>>

\* setup_webhook is called with a URL
InitSetup ==
    /\ now = 0
    /\ remote \in [ScanIds -> {"PENDING"}]
    /\ calls = <<>>
    /\ response = NoResponse
    /\ WaitIdle
    /\ HookIdle
    /\ ClientIdle
    /\ registered \in InitialEndpoints
    /\ webhook_url \in EndpointUrls
    /\ existing_webhooks = NoPage
    /\ spc = "list"
    /\ sresult = NoWebhook
    /\ serror = NoError
    /\ setups = 0
    /\ FlowIdle
    /\ ConcIdle

NextSetup == SetupList \/ SetupMatch \/ SetupCreate \/ SetupAgain

SpecSetup == InitSetup /\ [][NextSetup]_vars

(* ------------------ setup_webhook, called concurrently ---------------- *)

\* how many calls of setup_webhook run at the same time
NumCallers == 2

Callers == 1 .. NumCallers

\* a call that has not listed yet
NewCaller ==
    [spc |-> "list", existing_webhooks |-> NoPage, sresult |-> NoWebhook,
     serror |-> NoError]

\* line 43 in caller c: existing_webhooks = get_webhooks()
ConcList ==
    /\ \E c \in Callers, code \in StatusCodes :
          /\ callers[c].spc = "list"
          /\ callers' = [callers EXCEPT ![c] =
                IF code \div 100 # 2
                  THEN [@ EXCEPT !.spc = "raised",
                                 !.serror = [type |-> "HTTPStatusError",
                                             status_code |-> code]]
                  ELSE [@ EXCEPT !.spc = "match", !.existing_webhooks = FirstPage]]
    /\ UNCHANGED <<now, remote, calls, response, waiters>>
    /\ UNCHANGED <<waitVars, hookVars, clientVars, setupVars, flowVars>>

\* lines 44-47 in caller c: the loop over what it was listed
ConcMatch ==
    /\ \E c \in Callers :
          /\ callers[c].spc = "match"
          /\ LET m == FirstMatch(callers[c].existing_webhooks) IN
             callers' = [callers EXCEPT ![c] =
                IF m # 0
                  THEN [@ EXCEPT !.spc = "returned",
                                 !.sresult = callers[c].existing_webhooks.results[m]]
                  ELSE [@ EXCEPT !.spc = "create"]]
    /\ UNCHANGED <<now, remote, calls, response, waiters>>
    /\ UNCHANGED <<waitVars, hookVars, clientVars, setupVars, flowVars>>

\* lines 50-56 in caller c: create_webhook(webhook_url); the remote registers
\* what it is sent
ConcCreate ==
    /\ \E c \in Callers, code \in StatusCodes :
          LET webhook == [uuid |-> Len(registered) + 1, url |-> webhook_url] IN
          /\ callers[c].spc = "create"
          /\ IF code \div 100 # 2
               THEN /\ callers' = [callers EXCEPT ![c] =
                          [@ EXCEPT !.spc = "raised",
                                    !.serror = [type |-> "HTTPStatusError",
                                                status_code |-> code]]]
                    /\ UNCHANGED registered
               ELSE /\ registered' \in {<<webhook>> \o registered,
                                        Append(registered, webhook)}
                    /\ callers' = [callers EXCEPT ![c] =
                          [@ EXCEPT !.spc = "returned", !.sresult = webhook]]
    /\ UNCHANGED <<webhook_url, existing_webhooks, spc, sresult, serror, setups>>
    /\ UNCHANGED <<now, remote, calls, response, waiters>>
    /\ UNCHANGED <<waitVars, hookVars, clientVars, flowVars>>

\* the calls start together on a remote that does not hold the URL, and
\* whose endpoints fit in the first page with room for one more
InitConcSetup ==
    /\ now = 0
    /\ remote \in [ScanIds -> {"PENDING"}]
    /\ calls = <<>>
    /\ response = NoResponse
    /\ WaitIdle
    /\ HookIdle
    /\ ClientIdle
    /\ FlowIdle
    /\ registered \in InitialEndpoints
    /\ Len(registered) < PageSize
    /\ webhook_url \in EndpointUrls
    /\ Registrations(registered, webhook_url) = {}
    /\ existing_webhooks = NoPage
    /\ spc = "idle"
    /\ sresult = NoWebhook
    /\ serror = NoError
    /\ setups = 0
    /\ callers = [c \in Callers |-> NewCaller]
    /\ waiters = <<>>

NextConcSetup == ConcList \/ ConcMatch \/ ConcCreate

SpecConcSetup == InitConcSetup /\ [][NextConcSetup]_vars

(* ------------ wait_for_scan_completion, called concurrently ----------- *)

\* the clock of the concurrent waits runs over 0 .. MaxClock
MaxClock == 2

\* the concurrent waits are given timeouts 0 .. MaxWaitTimeout
MaxWaitTimeout == 1

\* the concurrent waits are given poll intervals 1 .. MaxWaitPoll
MaxWaitPoll == 1

\* the locals of one run of the loop on its own
NewAlone(t) ==
    [timeout |-> t, start_time |-> 0, scan |-> NoScan, pc |-> "entry",
     result |-> NoScan, error |-> NoError]

\* one invocation wait_for_scan_completion(uuid, t, p): its locals, the ids
\* it has asked the remote for, when its sleep ends, and what the loop run
\* on its own makes of the same clock readings and responses
NewWaiter(uuid, t, p) ==
    [scan_uuid |-> uuid, timeout |-> t, poll_interval |-> p, start_time |-> 0,
     scan |-> NoScan, pc |-> "entry", result |-> NoScan, error |-> NoError,
     asked |-> {}, wake |-> 0, alone |-> NewAlone(t)]

\* scan.py:242 for the invocation on uuid with timeout t
TimeoutErrorOf(uuid, t) == [type |-> "TimeoutError", scan_uuid |-> uuid, timeout |-> t]

\* scan.py:232 run alone: the clock read t
AloneEnter(a, t) == [a EXCEPT !.start_time = t, !.pc = "fetch"]

\* scan.py:235 run alone: get_scan answered resp
AloneFetch(a, resp) ==
    IF RaisesForStatus(resp)
      THEN [a EXCEPT !.pc = "raised", !.error = HTTPStatusError(resp)]
      ELSE [a EXCEPT !.pc = "check", !.scan = resp.json]

\* scan.py:236-244 run alone: the clock read t at the deadline test
AloneCheck(a, uuid, t) ==
    IF a.scan.status \in TERMINAL
      THEN [a EXCEPT !.pc = "returned", !.result = a.scan]
      ELSE IF t - a.start_time > a.timeout
             THEN [a EXCEPT !.pc = "raised", !.error = TimeoutErrorOf(uuid, a.timeout)]
             ELSE [a EXCEPT !.pc = "fetch"]

\* mutant: start_time is one module-level variable, written by every call
ConcEnterSharedStart ==
    /\ \E w \in ScanIds :
          /\ waiters[w].pc = "entry"
          /\ waiters' = [v \in ScanIds |->
                IF v = w
                  THEN [waiters[v] EXCEPT !.start_time = now, !.pc = "fetch",
                                          !.alone = AloneEnter(@, now)]
                  ELSE [waiters[v] EXCEPT !.start_time = now]]
    /\ UNCHANGED <<now, remote, calls, response, callers>>
    /\ UNCHANGED <<waitVars, hookVars, clientVars, setupVars, flowVars>>

\* scan.py:232 in the invocation w: start_time = time.time(), a local
ConcEnter ==
    /\ \E w \in ScanIds :
          /\ waiters[w].pc = "entry"
          /\ waiters' = [waiters EXCEPT ![w] =
                [@ EXCEPT !.start_time = now, !.pc = "fetch",
                          !.alone = AloneEnter(@, now)]]
    /\ UNCHANGED <<now, remote, calls, response, callers>>
    /\ UNCHANGED <<waitVars, hookVars, clientVars, setupVars, flowVars>>

\* scan.py:235 in the invocation w: scan = get_scan(scan_uuid)
ConcFetch ==
    /\ \E w \in ScanIds, code \in StatusCodes :
          LET me == waiters[w]
              resp == HttpGetScan(me.scan_uuid, code) IN
          /\ me.pc = "fetch"
          /\ waiters' = [waiters EXCEPT ![w] =
                IF RaisesForStatus(resp)
                  THEN [@ EXCEPT !.asked = @ \cup {me.scan_uuid},
                                 !.error = HTTPStatusError(resp),
                                 !.pc = "raised",
                                 !.alone = AloneFetch(@, resp)]
                  ELSE [@ EXCEPT !.asked = @ \cup {me.scan_uuid},
                                 !.scan = resp.json,
                                 !.pc = "check",
                                 !.alone = AloneFetch(@, resp)]]
    /\ UNCHANGED <<now, remote, calls, response, callers>>
    /\ UNCHANGED <<waitVars, hookVars, clientVars, setupVars, flowVars>>

\* scan.py:236-242 in the invocation w: the status test, then the deadline test
ConcCheck ==
    /\ \E w \in ScanIds :
          LET me == waiters[w] IN
          /\ me.pc = "check"
          /\ waiters' = [waiters EXCEPT ![w] =
                IF me.scan.status \in TERMINAL
                  THEN [@ EXCEPT !.result = me.scan, !.pc = "returned",
                                 !.alone = AloneCheck(@, me.scan_uuid, now)]
                  ELSE IF now - me.start_time > me.timeout
                         THEN [@ EXCEPT !.error = TimeoutErrorOf(me.scan_uuid, me.timeout),
                                        !.pc = "raised",
                                        !.alone = AloneCheck(@, me.scan_uuid, now)]
                         ELSE [@ EXCEPT !.pc = "sleep",
                                        !.alone = AloneCheck(@, me.scan_uuid, now)]]
    /\ UNCHANGED <<now, remote, calls, response, callers>>
    /\ UNCHANGED <<waitVars, hookVars, clientVars, setupVars, flowVars>>

\* scan.py:244 in the invocation w: time.sleep(poll_interval) begins
ConcSleep ==
    /\ \E w \in ScanIds :
          /\ waiters[w].pc = "sleep"
          /\ waiters' = [waiters EXCEPT ![w] =
                [@ EXCEPT !.wake = now + waiters[w].poll_interval, !.pc = "sleeping"]]
    /\ UNCHANGED <<now, remote, calls, response, callers>>
    /\ UNCHANGED <<waitVars, hookVars, clientVars, setupVars, flowVars>>

\* scan.py:244 in the invocation w: time.sleep returns, not before its time
ConcWake ==
    /\ \E w \in ScanIds :
          /\ waiters[w].pc = "sleeping"
          /\ now >= waiters[w].wake
          /\ waiters' = [waiters EXCEPT ![w] = [@ EXCEPT !.pc = "fetch"]]
    /\ UNCHANGED <<now, remote, calls, response, callers>>
    /\ UNCHANGED <<waitVars, hookVars, clientVars, setupVars, flowVars>>

\* a second passes, for every invocation alike
Tick ==
    /\ now < MaxClock
    /\ now' = now + 1
    /\ UNCHANGED <<remote, calls, response, callers, waiters>>
    /\ UNCHANGED <<waitVars, hookVars, clientVars, setupVars, flowVars>>

\* the remote finishes a scan that was running, one way or the other
ScanFinishes ==
    /\ \E id \in ScanIds, s \in TERMINAL :
          /\ remote[id] \notin TERMINAL
          /\ remote' = [remote EXCEPT ![id] = s]
    /\ UNCHANGED <<now, calls, response, callers, waiters>>
    /\ UNCHANGED <<waitVars, hookVars, clientVars, setupVars, flowVars>>

\* one invocation per scan, each with its own timeout and poll interval
InitConcWait ==
    /\ now = 0
    /\ remote \in [ScanIds -> {"PENDING"}]
    /\ calls = <<>>
    /\ response = NoResponse
    /\ WaitIdle
    /\ HookIdle
    /\ ClientIdle
    /\ SetupIdle
    /\ FlowIdle
    /\ callers = <<>>
    /\ \E t \in [ScanIds -> 0 .. MaxWaitTimeout], p \in [ScanIds -> 1 .. MaxWaitPoll] :
          waiters = [w \in ScanIds |-> NewWaiter(w, t[w], p[w])]

ConcWaitNext == ConcEnter \/ ConcFetch \/ ConcCheck \/ ConcSleep \/ ConcWake

NextConcWait == ConcWaitNext \/ Tick \/ ScanFinishes

SpecConcWait == InitConcWait /\ [][NextConcWait]_vars

(* ----------- flows: main and webhook_workflow_setup ------------------- *)

\* create_scan_and_retrieve_inference_results.py:32-71, the calls of main up
\* to the wait, in the order of the text
MainSteps ==
    <<"create_study", "upload_dicom", "get_dicoms", "create_scan",
      "wait_for_scan_completion">>

\* mutant: the endpoint is set up after the scan is created
WebhookSetupStepsScanFirst ==
    <<"create_study", "upload_dicom", "get_dicoms", "create_scan", "setup_webhook">>

\* ..._with_webhooks.py:69-97, the calls of webhook_workflow_setup
WebhookSetupSteps ==
    <<"setup_webhook", "create_study", "upload_dicom", "get_dicoms", "create_scan">>

StepsOf(f) == IF f = "main" THEN MainSteps ELSE WebhookSetupSteps

\* the argument a call is given: the flows hand on what earlier calls returned
ArgOf(call) ==
    IF call = "setup_webhook" THEN "https://a.example/hook"
    ELSE IF call = "create_study" THEN "patient"
    ELSE IF call \in {"upload_dicom", "get_dicoms", "create_scan"} THEN flocals.study_uuid
    ELSE IF call = "wait_for_scan_completion" THEN flocals.scan_uuid
    ELSE flocals.completed_scan.report

\* what a call may return; the wait returns a scan in a terminal status
Returns(call) ==
    IF call = "setup_webhook" THEN {[uuid |-> 1, url |-> "https://a.example/hook"]}
    ELSE IF call = "create_study" THEN {[uuid |-> u] : u \in Uuids}
    ELSE IF call = "create_scan" THEN {[uuid |-> id, status |-> "PENDING"] : id \in ScanIds}
    ELSE IF call = "wait_for_scan_completion"
      THEN {[uuid |-> flocals.scan_uuid, status |-> st,
             report |-> IF st = "COMPLETED" THEN ReportOf(flocals.scan_uuid) ELSE "null"] :
                st \in TERMINAL}
    ELSE {[answer_to |-> call]}

\* what a call may raise
Raises(call) ==
    {[type |-> "HTTPStatusError", status_code |-> c] : c \in {404, 500}}
    \cup (IF call = "upload_dicom" THEN {[type |-> "FileNotFoundError"]} ELSE {})
    \cup (IF call = "wait_for_scan_completion" THEN {[type |-> "TimeoutError"]} ELSE {})

\* the assignment of what a call returned
Bind(call, v) ==
    IF call = "setup_webhook" THEN [flocals EXCEPT !.webhook = v]
    ELSE IF call = "create_study" THEN [flocals EXCEPT !.study_uuid = v.uuid]
    ELSE IF call = "create_scan" THEN [flocals EXCEPT !.scan_uuid = v.uuid]
    ELSE IF call = "wait_for_scan_completion" THEN [flocals EXCEPT !.completed_scan = v]
    ELSE flocals

Called(call, v) == [call |-> call, arg |-> ArgOf(call), ok |-> TRUE, error |-> NoError]

Failed(call, e) == [call |-> call, arg |-> ArgOf(call), ok |-> FALSE, error |-> e]

\* mutant: the except clause of a flow prints the error and goes on
FlowRaiseSwallowed(call, e) ==
    /\ trace' = Append(trace, Failed(call, e))
    /\ fpc' = IF Len(trace) + 1 < Len(StepsOf(flow)) THEN "calls" ELSE "return"
    /\ UNCHANGED <<ferror, flocals, fresult>>

\* an error of a call is caught by `except Exception as e`, printed and raised
\* again (main 167-169, webhook_workflow_setup 122-124)
FlowRaise(call, e) ==
    /\ trace' = Append(trace, Failed(call, e))
    /\ ferror' = e
    /\ fpc' = "raised"
    /\ UNCHANGED <<flocals, fresult>>

\* the next call of the straight-line part of a flow
FlowCall ==
    /\ fpc = "calls"
    /\ Len(trace) < Len(StepsOf(flow))
    /\ LET call == StepsOf(flow)[Len(trace) + 1] IN
       \/ \E v \in Returns(call) :
             /\ trace' = Append(trace, Called(call, v))
             /\ flocals' = Bind(call, v)
             /\ fpc' = IF Len(trace) + 1 < Len(StepsOf(flow)) THEN "calls"
                       ELSE IF flow = "main" THEN "branch" ELSE "return"
             /\ UNCHANGED <<fresult, ferror>>
       \/ \E e \in Raises(call) : FlowRaise(call, e)
    /\ UNCHANGED <<now, remote, calls, response, flow>>
    /\ UNCHANGED <<waitVars, hookVars, clientVars, setupVars, concVars>>

\* mutant: main fetches the report whatever the status of the scan
FlowBranchAlwaysReport ==
    /\ fpc = "branch"
    /\ fpc' = "get_report"
    /\ UNCHANGED <<now, remote, calls, response, flow, trace, flocals, fresult, ferror>>
    /\ UNCHANGED <<waitVars, hookVars, clientVars, setupVars, concVars>>

\* main 75 and 156: the branch on completed_scan['status']
FlowBranch ==
    /\ fpc = "branch"
    /\ fpc' = IF flocals.completed_scan.status = "COMPLETED" THEN "get_report" ELSE "return"
    /\ UNCHANGED <<now, remote, calls, response, flow, trace, flocals, fresult, ferror>>
    /\ UNCHANGED <<waitVars, hookVars, clientVars, setupVars, concVars>>

\* main 82, report = get_report(completed_scan['report'])
FlowGetReport ==
    /\ fpc = "get_report"
    /\ \/ \E v \in Returns("get_report") :
             /\ trace' = Append(trace, Called("get_report", v))
             /\ fpc' = "return"
             /\ UNCHANGED <<flocals, fresult, ferror>>
       \/ \E e \in Raises("get_report") : FlowRaise("get_report", e)
    /\ UNCHANGED <<now, remote, calls, response, flow>>
    /\ UNCHANGED <<waitVars, hookVars, clientVars, setupVars, concVars>>

\* main ends without a value; webhook_workflow_setup returns the uuids for
\* the handler (115-120)
FlowReturn ==
    /\ fpc = "return"
    /\ fresult' = IF flow = "main" THEN [status |-> None]
                  ELSE [study_uuid |-> flocals.study_uuid,
                        scan_uuid |-> flocals.scan_uuid,
                        webhook_uuid |-> flocals.webhook.uuid]
    /\ fpc' = "returned"
    /\ UNCHANGED <<now, remote, calls, response, flow, trace, flocals, ferror>>
    /\ UNCHANGED <<waitVars, hookVars, clientVars, setupVars, concVars>>

\* a flow is started
InitFlow ==
    /\ now = 0
    /\ remote \in [ScanIds -> {"PENDING"}]
    /\ calls = <<>>
    /\ response = NoResponse
    /\ WaitIdle
    /\ HookIdle
    /\ ClientIdle
    /\ SetupIdle
    /\ ConcIdle
    /\ flow \in {"main", "webhook_workflow_setup"}
    /\ fpc = "calls"
    /\ trace = <<>>
    /\ flocals = NoLocals
    /\ fresult = NoResult
    /\ ferror = NoError

NextFlow == FlowCall \/ FlowBranch \/ FlowGetReport \/ FlowReturn

SpecFlow == InitFlow /\ [][NextFlow]_vars

(* -------------------- every function that calls others ---------------- *)

\* one of main, webhook_workflow_setup, setup_webhook,
\* handle_webhook_notification and wait_for_scan_completion is called
InitAny == Init \/ InitWebhook \/ InitSetup \/ InitFlow

NextAny == Next \/ NextWebhook \/ NextSetup \/ NextFlow

SpecAny == InitAny /\ [][NextAny]_vars

(* --------------------- wait_for_scan_completion: claims --------------- *)

IsTerminalStatus(s) == s = "COMPLETED" \/ s = "FAILED"

\* the last fetch was answered with a scan
FetchSucceeded == response.status_code = 200

FetchedTerminal == FetchSucceeded /\ IsTerminalStatus(response.json.status)

FetchedNonTerminal == FetchSucceeded /\ ~IsTerminalStatus(response.json.status)

\* the time since loop entry
Elapsed == now - start_time

\* the loop has left the check that follows a fetch
AfterCheck == pc \in {"sleep", "returned", "raised"}

RaisedTimeout == pc = "raised" /\ error.type = "TimeoutError"

RaisedHttp == pc = "raised" /\ error.type = "HTTPStatusError"

\* time advanced only by the sleeps: every fetch took no time
ZeroLatency == Elapsed = NumSleeps * poll_interval

\* C1: wait_for_scan_completion returns only a scan in status COMPLETED or
\* FAILED, that scan is the one its last get_scan fetched, for the scan id it
\* was called with, and once a fetch has shown a terminal status there is no
\* further fetch and no sleep: the loop is at the check or has returned, and
\* the last call made is that fetch.
C1_ReturnsFirstTerminalFetch ==
    /\ pc = "returned" =>
          /\ IsTerminalStatus(result.status)
          /\ result = response.json
          /\ result.uuid = scan_uuid
    /\ FetchedTerminal =>
          /\ pc \in {"check", "returned"}
          /\ calls[Len(calls)].op = "get_scan"
    /\ pc \in {"sleep", "raised"} => ~FetchedTerminal

C1_Witness ==
    /\ pc = "returned"
    /\ result.status = "FAILED"
    /\ NumFetches = 3

\* C2: after the check that follows a fetch, the timeout error has been raised
\* exactly when the fetch returned a non-terminal status and the elapsed time
\* is strictly greater than timeout; with a non-terminal status and elapsed <=
\* timeout the loop goes to sleep instead. A timeout raised at the first check
\* comes after one fetch and no sleep.
C2_TimeoutIffElapsedExceeds ==
    /\ AfterCheck =>
          /\ RaisedTimeout <=> (FetchedNonTerminal /\ Elapsed > timeout)
          /\ pc = "sleep" <=> (FetchedNonTerminal /\ Elapsed <= timeout)
    /\ (RaisedTimeout /\ NumFetches = 1) => NumSleeps = 0

C2_Witness ==
    /\ RaisedTimeout
    /\ timeout >= 0
    /\ NumFetches = 1
    /\ NumSleeps = 0

\* C3 as stated: with fetches that take no time, a timeout (of a timeout >= 0)
\* is raised after floor(timeout / poll_interval) + 1 fetches.
C3_FetchCountAsStated ==
    (RaisedTimeout /\ ZeroLatency /\ timeout >= 0) =>
        NumFetches = (timeout \div poll_interval) + 1

\* C3 amended: with fetches that take no time, a timeout is raised after
\* floor(timeout / poll_interval) + 2 fetches when timeout >= 0 (one fetch at
\* each elapsed time 0, p, 2p, ... up to timeout, and one more, the first past
\* timeout), and after 1 fetch when timeout < 0.
C3_FetchCount ==
    (RaisedTimeout /\ ZeroLatency) =>
        NumFetches = IF timeout < 0 THEN 1 ELSE (timeout \div poll_interval) + 2

C3_Witness ==
    /\ RaisedTimeout
    /\ ZeroLatency
    /\ timeout = 2
    /\ poll_interval = 1
    /\ NumFetches = 4

\* C4: a timeout error is raised only after at least one fetch, whatever the
\* timeout, and a terminal status that a fetch returned is honoured: after the
\* check the loop has returned that scan, also when elapsed > timeout.
C4_FetchBeforeTimeoutAndTerminalHonoured ==
    /\ RaisedTimeout => NumFetches >= 1
    /\ (AfterCheck /\ FetchedTerminal) =>
          /\ pc = "returned"
          /\ result = response.json

C4_Witness ==
    /\ pc = "returned"
    /\ timeout >= 0
    /\ Elapsed > timeout
    /\ NumFetches = 1

\* C5: fetches and sleeps alternate, starting with a fetch, so there is
\* exactly one sleep between two consecutive fetches; at every exit of the
\* loop the number of sleeps is the number of fetches minus one, and no
\* sleep when the first fetch ends the loop.
C5_SleepsAreFetchesMinusOne ==
    /\ \A i \in 1 .. Len(calls) :
          calls[i].op = IF i % 2 = 1 THEN "get_scan" ELSE "sleep"
    /\ pc \in {"returned", "raised"} =>
          /\ NumFetches >= 1
          /\ NumSleeps = NumFetches - 1
    /\ (pc \in {"returned", "raised"} /\ NumFetches = 1) => NumSleeps = 0

C5_Witness ==
    /\ pc = "returned"
    /\ result.status = "COMPLETED"
    /\ NumFetches = 3
    /\ NumSleeps = 2

RemoteTerminal == IsTerminalStatus(remote[scan_uuid])

Exited == pc \in {"returned", "raised"}

\* C6: the wait always ends: every run reaches a return or a raise; while the
\* remote scan never is terminal the run ends in a raise (the timeout error,
\* or the HTTP error of a failed fetch); and when the remote scan stays
\* terminal from a moment at which another fetch is still to come, the run
\* ends returning the scan (or in the HTTP error of a failed fetch).
C6_WaitEnds ==
    /\ <>Exited
    /\ ([]~RemoteTerminal) => <>(RaisedTimeout \/ RaisedHttp)
    /\ [](([]RemoteTerminal /\ pc \in {"entry", "fetch", "sleep"})
            => <>(pc = "returned" \/ RaisedHttp))

C6_Witness ==
    /\ RaisedTimeout
    /\ ~RemoteTerminal
    /\ timeout = 2
    /\ NumSleeps = 3

\* C7: the timeout error carries the scan id and the timeout the caller
\* passed, not the elapsed time.
C7_TimeoutErrorCarriesArguments ==
    RaisedTimeout =>
        /\ error.scan_uuid = scan_uuid
        /\ error.timeout = timeout

C7_Witness ==
    /\ RaisedTimeout
    /\ error.scan_uuid = "scan-2"
    /\ error.timeout = 1
    /\ Elapsed = 2

\* C8: a fetch answered with an error status ends the wait with that HTTP
\* error: nothing is called after the failed fetch (no retry, no sleep) and
\* the error is not a timeout error; a timeout error comes only from the
\* deadline check after a fetch that succeeded.
C8_HttpErrorAbortsWait ==
    /\ (response.status_code # 0 /\ ~FetchSucceeded) =>
          /\ RaisedHttp
          /\ error.status_code = response.status_code
          /\ calls[Len(calls)].op = "get_scan"
    /\ RaisedTimeout => FetchedNonTerminal
    /\ RaisedHttp => ~FetchSucceeded

C8_Witness ==
    /\ RaisedHttp
    /\ error.status_code = 500
    /\ NumFetches = 2
    /\ NumSleeps = 1

\* C19: every sleep of the wait lasts exactly poll_interval seconds, the first
\* as the last: no sleep is longer (backoff), none is shorter (cut to the
\* remaining budget), and the clock moves by poll_interval across each one.
C19_EverySleepIsPollInterval ==
    /\ \A i \in 1 .. Len(calls) :
          calls[i].op = "sleep" => calls[i].seconds = poll_interval
    /\ pc # "entry" => Elapsed >= NumSleeps * poll_interval

\* a second sleep of 2 seconds that overshoots what was left of the budget
C19_Witness ==
    /\ pc = "fetch"
    /\ poll_interval = 2
    /\ timeout = 2
    /\ NumSleeps = 2
    /\ Elapsed = 4

\* C20: the start instant is taken once, on entering the wait and before the
\* first fetch, as the clock of that moment (time spent before the call, such
\* as the submission of the scan, is not counted), and no later step of the
\* wait changes it.
C20_StartInstantTakenOnceAtEntry ==
    [][ /\ (pc = "entry" /\ pc' # "entry") =>
              (start_time' = now /\ calls' = <<>>)
        /\ pc # "entry" => start_time' = start_time ]_vars

\* the wait was entered at clock 1, and fetched three times from there
C20_Witness ==
    /\ pc = "returned"
    /\ start_time = 1
    /\ NumFetches = 3
    /\ NumSleeps = 2
    /\ Elapsed = 3

\* the HTTP method behind a call of the wait's log
MethodOf(call) == Client(call.op).method

\* C21: the tracker only observes. All the wait calls besides sleeping is
\* get_scan of its own scan, a GET; the one request of get_scan_progress is
\* the GET of its scan; and no step of either changes the status the remote
\* holds, however the wait ends.
C21_TrackerOnlyObserves ==
    /\ [](/\ \A i \in 1 .. Len(calls) :
                calls[i].op # "sleep" =>
                    /\ calls[i] = [op |-> "get_scan", uuid |-> scan_uuid]
                    /\ MethodOf(calls[i]) = "GET"
          /\ \A i \in 1 .. Len(requests) :
                /\ requests[i].method = "GET"
                /\ requests[i].path = <<"/api/v2/scans/", args.uuid, "/">>)
    /\ [][(pc' # pc \/ calls' # calls \/ cpc' # cpc \/ requests' # requests)
             => remote' = remote]_vars

\* a wait that timed out while the remote moved the scan between statuses
C21_Witness ==
    /\ RaisedTimeout
    /\ NumFetches = 2
    /\ response.json.status = "STARTED"
    /\ remote[scan_uuid] = "QUEUED"

(* ------------------- handle_webhook_notification: claims -------------- *)

HookExited == wpc \in {"returned", "raised"}

\* the body is not valid JSON text, or what it parses to has no scan_id or no status
Malformed(body) ==
    \/ body.kind \in {"invalid_utf8", "invalid_json", "non_object"}
    \/ body.json.scan_id = Absent
    \/ body.json.status = Absent

\* C9: for a malformed notification the handler, once run, has raised: it
\* returned no result, and it made no remote call (no get_report, no get_scan).
C9_MalformedFailsFast ==
    Malformed(webhook_payload) =>
        /\ wpc \in {"parse", "raised"}
        /\ wresult = NoResult
        /\ calls = <<>>
        /\ wpc = "raised" =>
              werror.type \in {"UnicodeDecodeError", "JSONDecodeError", "TypeError", "KeyError"}

C9_Witness ==
    /\ wpc = "raised"
    /\ webhook_payload.kind = "object"
    /\ webhook_payload.json.scan_id = "scan-1"
    /\ webhook_payload.json.status = Absent
    /\ webhook_payload.json.report = [kind |-> "object", uuid |-> "report-1"]
    /\ werror = [type |-> "KeyError", key |-> "status"]

\* the notification is well formed, COMPLETED, and its report is an object with a uuid
CarriesReportUuid(body) ==
    /\ body.json.report.kind = "object"
    /\ body.json.report.uuid \notin {Absent, ""}

\* C10: once the handler has run on a well-formed COMPLETED notification:
\* if the report carries a uuid, it made exactly one call, get_report of that
\* uuid (no get_scan), and, that call having succeeded, returned SUCCESS with the
\* payload's scan_id and the report uuid; if there is no report uuid, it made
\* no call and returned NO_REPORT with the payload's scan_id.
C10_CompletedNotification ==
    (/\ HookExited
     /\ ~Malformed(webhook_payload)
     /\ webhook_payload.json.status = "COMPLETED") =>
        IF CarriesReportUuid(webhook_payload)
          THEN /\ calls = <<[op |-> "get_report", uuid |-> webhook_payload.json.report.uuid]>>
               /\ response.status_code = 200 =>
                     /\ wpc = "returned"
                     /\ wresult = [scan_uuid |-> webhook_payload.json.scan_id,
                                   report_uuid |-> webhook_payload.json.report.uuid,
                                   status |-> "SUCCESS"]
          ELSE /\ calls = <<>>
               /\ wpc = "returned"
               /\ wresult = [scan_uuid |-> webhook_payload.json.scan_id,
                             status |-> "NO_REPORT"]

\* C11: when the get_report call of a COMPLETED notification is answered with
\* an error status, the handler raises that HTTP error to its caller: it
\* returns no result, SUCCESS or other, and calls nothing after it.
C11_ReportFetchFailureRaised ==
    (/\ calls # <<>>
     /\ calls[Len(calls)].op = "get_report"
     /\ response.status_code \div 100 # 2) =>
        /\ wpc = "raised"
        /\ werror = [type |-> "HTTPStatusError", status_code |-> response.status_code]
        /\ wresult = NoResult
        /\ Len(calls) = 1

C11_Witness ==
    /\ wpc = "raised"
    /\ webhook_payload.kind = "object"
    /\ webhook_payload.json.status = "COMPLETED"
    /\ calls = <<[op |-> "get_report", uuid |-> "report-1"]>>
    /\ response.status_code = 500
    /\ werror.type = "HTTPStatusError"

\* a well-formed notification whose status is neither COMPLETED nor FAILED
UnexpectedStatus(body) ==
    /\ ~Malformed(body)
    /\ body.json.status \notin {"COMPLETED", "FAILED"}

\* C12: on a well-formed notification whose status is neither COMPLETED nor
\* FAILED the handler never raises and makes no remote call; what it returns
\* is the payload's scan_id and that same status, unchanged, whatever the
\* report field holds.
C12_UnexpectedStatusPassedThrough ==
    UnexpectedStatus(webhook_payload) =>
        /\ wpc # "raised"
        /\ werror = NoError
        /\ calls = <<>>
        /\ wpc = "returned" =>
              wresult = [scan_uuid |-> webhook_payload.json.scan_id,
                         status |-> webhook_payload.json.status]

C12_Witness ==
    /\ wpc = "returned"
    /\ webhook_payload.kind = "object"
    /\ webhook_payload.json.report.kind = "null"
    /\ wresult = [scan_uuid |-> "scan-2", status |-> "QUEUED"]

\* every request the handler made is a read: a GET of a report or of a scan
OnlyReads(cs) == \A i \in 1 .. Len(cs) : cs[i].op \in {"get_report", "get_scan"}

\* C13: handling the same notification again gives what the earlier handling
\* gave whenever the remote answers as it did then: the same requests, the
\* same returned result or raised error. Every request of every handling is
\* a read (get_report, get_scan), and no step of the handler changes the
\* remote.
C13_IdempotentUnderRedelivery ==
    /\ [](/\ OnlyReads(calls)
          /\ \A i \in 1 .. Len(deliveries) :
                /\ OnlyReads(deliveries[i].calls)
                /\ (wpc \in {"returned", "raised"} /\ deliveries[i].response = response)
                      => deliveries[i] = Delivery)
    /\ [][remote' = remote]_vars

\* a COMPLETED notification handled twice, SUCCESS both times
C13_Witness ==
    /\ Len(deliveries) = 1
    /\ wpc = "returned"
    /\ wresult = [scan_uuid |-> "scan-1", report_uuid |-> "report-2", status |-> "SUCCESS"]
    /\ deliveries[1].wresult = wresult
    /\ calls = <<[op |-> "get_report", uuid |-> "report-2"]>>

\* C23: on a well-formed FAILED notification the handler, once finished, has
\* made exactly one call, get_scan of the payload's scan_id (never
\* get_report); answered with a scan it returned the payload's scan_id with
\* status FAILED, whether or not the scan carries a state detail; answered
\* with an error status it raised that HTTP error and returned nothing.
C23_FailedNotification ==
    (/\ HookExited
     /\ ~Malformed(webhook_payload)
     /\ webhook_payload.json.status = "FAILED") =>
        /\ calls = <<[op |-> "get_scan", uuid |-> webhook_payload.json.scan_id]>>
        /\ IF response.status_code \div 100 = 2
             THEN /\ wpc = "returned"
                  /\ wresult = [scan_uuid |-> webhook_payload.json.scan_id,
                                status |-> "FAILED"]
             ELSE /\ wpc = "raised"
                  /\ werror = [type |-> "HTTPStatusError",
                               status_code |-> response.status_code]
                  /\ wresult = NoResult

\* FAILED returned for a scan that carries no state detail
C23_Witness ==
    /\ wpc = "returned"
    /\ wresult = [scan_uuid |-> "scan-1", status |-> "FAILED"]
    /\ response.json.state = Absent
    /\ calls = <<[op |-> "get_scan", uuid |-> "scan-1"]>>

\* C24: the handler calls the remote only for a notification whose scan_id
\* is one of the scans the application is tracking; a notification for
\* another scan_id brings no get_report and no get_scan.
C24_ActsOnlyOnTrackedScans ==
    calls # <<>> => webhook_payload.json.scan_id \in TrackedScans

\* C28: a well-formed notification (scan_id and status present) makes the
\* handler raise only when a remote fetch failed: whatever the report field
\* is (absent, null, an object without uuid, an object with uuid), an error
\* raised is the HTTP error of get_report or get_scan.
C28_ReportShapeNeverRaises ==
    (~Malformed(webhook_payload) /\ wpc = "raised") =>
        /\ werror.type = "HTTPStatusError"
        /\ calls # <<>>

(* ----------------------- resource client: claims ---------------------- *)

ClientExited == cpc \in {"returned", "raised"}

\* the last response carries an error status
AnsweredError == response.status_code # 0 /\ response.status_code \div 100 # 2

\* what C15 says of the response: an error status is raised as the HTTP error
\* with no value returned, and a value is returned only after a success
ErrorStatusRaised ==
    /\ AnsweredError =>
          /\ cpc = "raised"
          /\ cerror = [type |-> "HTTPStatusError", status_code |-> response.status_code]
          /\ cresult = NoResult
    /\ cpc = "returned" =>
          /\ response.status_code \div 100 = 2
          /\ cerror = NoError

\* C15 as stated: every finished call of a client function has sent exactly
\* one HTTP request, raised the HTTP error on an error status, returned
\* only after a success.
C15_ExactlyOneRequestAsStated ==
    ClientExited => (Len(requests) = 1 /\ ErrorStatusRaised)

\* C15, amended: a finished call has made one httpx request, never a second
\* after an error status (no retry), with two exceptions that the code
\* shows: upload_dicom and idempotent_dicom_upload send no request when the
\* local file cannot be opened, and download_dicom_file, which follows
\* redirects, sends one further GET per redirect. An error status is raised
\* as the HTTP error with no value returned; a value is returned only
\* after a success response.
C15_OneRequestNoRetry ==
    ClientExited =>
        /\ IF cerror.type = "FileNotFoundError"
             THEN fn \in {"upload_dicom", "idempotent_dicom_upload"} /\ requests = <<>>
             ELSE /\ Len(requests) >= 1
                  /\ requests[1] = Request(Callee(fn), args)
                  /\ \A i \in 2 .. Len(requests) :
                        /\ fn = "download_dicom_file"
                        /\ requests[i].path = <<"<Location>">>
        /\ ErrorStatusRaised

C15_Witness ==
    /\ fn = "delete_scan"
    /\ cpc = "raised"
    /\ Len(requests) = 1
    /\ response.status_code = 404
    /\ cerror = [type |-> "HTTPStatusError", status_code |-> 404]
    /\ finished # <<>>

\* C16: a finished create_scan has sent one request, a POST to
\* /api/v2/scans/, whose body holds the caller's study id; it holds the
\* caller's product when one was given, and no product field when the
\* product was left out (None).
C16_CreateScanRequest ==
    (fn = "create_scan" /\ ClientExited) =>
        /\ Len(requests) = 1
        /\ requests[1].method = "POST"
        /\ requests[1].path = <<"/api/v2/scans/">>
        /\ requests[1].json.study = args.uuid
        /\ args.product \in {"ECHOMEASURE", "CARDIOVISION"} =>
              requests[1].json.product = args.product
        /\ args.product = None => requests[1].json.product = Absent

C16_Witness ==
    /\ fn = "create_scan"
    /\ cpc = "returned"
    /\ args.product = None
    /\ requests = <<[method |-> "POST", path |-> <<"/api/v2/scans/">>,
                     authorization |-> "Bearer",
                     json |-> [study |-> "uuid-2", product |-> Absent]]>>

\* the scheme C17 gives to the family of a function
FamilyScheme(f) ==
    IF ModuleOf(Callee(f)) \in {"study", "dicom", "scan"} THEN "Bearer" ELSE "Token"

\* C17: the request a function sends carries the Authorization scheme of its
\* family: Bearer for the functions of study, dicom and scan, Token for
\* those of reports (measurements and version among them), webhooks and
\* all_studies. No request carries the other scheme.
C17_SchemePerFamily ==
    \A i \in 1 .. Len(requests) :
        /\ i = 1 => requests[i].authorization = FamilyScheme(fn)
        /\ requests[i].authorization \in {FamilyScheme(fn), Absent}

C17_Witness ==
    /\ fn = "create_user_measurement"
    /\ cpc = "returned"
    /\ requests[1].authorization = "Token"
    /\ requests[1].path = <<"/api/v2/measurements/">>

\* C18: a finished get_scan_progress has made one request, the GET that
\* get_scan makes for the same scan id; what it returns is the answer to
\* that request, unchanged; called again, it returns the same whenever the
\* remote answers the same; and no step of it changes the remote.
C18_ProgressIsPassThrough ==
    /\ []((fn = "get_scan_progress" /\ ClientExited) =>
            /\ requests = <<[method |-> "GET",
                             path |-> <<"/api/v2/scans/", args.uuid, "/">>,
                             authorization |-> "Bearer", json |-> Absent]>>
            /\ cpc = "returned" => cresult = response.json
            /\ \A i \in 1 .. Len(finished) :
                  finished[i].response = response => finished[i] = ClientCall)
    /\ [][(fn = "get_scan_progress" /\ (cpc' # cpc \/ requests' # requests))
             => remote' = remote]_vars

C18_Witness ==
    /\ fn = "get_scan_progress"
    /\ cpc = "returned"
    /\ Len(finished) = 1
    /\ finished[1].cresult = cresult
    /\ cresult = [uuid |-> "scan-2", status |-> "STARTED", report |-> "null"]

\* C27: the request update_webhook sends is one PATCH of the endpoint's path
\* whose body has a single field, url, with the caller's new url: no token
\* field goes to the remote, for every webhook id and url.
C27_UpdateSendsUrlOnly ==
    (fn = "update_webhook" /\ requests # <<>>) =>
        /\ Len(requests) = 1
        /\ requests[1].method = "PATCH"
        /\ requests[1].path = <<"/api/v2/webhook/", args.uuid, "/">>
        /\ DOMAIN requests[1].json = {"url"}
        /\ requests[1].json.url = args.url

C27_Witness ==
    /\ fn = "update_webhook"
    /\ cpc = "returned"
    /\ args.uuid = "uuid-2"
    /\ requests[1].json = [url |-> "https://b.example/hook"]

(* -------------------------- setup_webhook: claims --------------------- *)

\* the current call has sent the POST of create_webhook
SetupCreated == \E i \in 1 .. Len(requests) : requests[i].method = "POST"

\* C14: setup_webhook lists the endpoints first; it gets to create_webhook
\* only when no endpoint the remote holds has the URL, and then sends one
\* POST; when one has the URL it returns that endpoint and sends no POST;
\* so the remote never holds two registrations of the URL, however many
\* calls were made and however many endpoints it held.
C14_SetupIsIdempotent ==
    /\ requests # <<>> => requests[1].method = "GET"
    /\ spc = "create" => Registrations(registered, webhook_url) = {}
    /\ Cardinality({i \in 1 .. Len(requests) : requests[i].method = "POST"}) <= 1
    /\ (spc = "returned" /\ ~SetupCreated) =>
          /\ sresult.url = webhook_url
          /\ \E i \in 1 .. Len(registered) : registered[i] = sresult
    /\ Cardinality(Registrations(registered, webhook_url)) <= 1

\* C14 for a remote whose endpoints all fit in the first page of its list
C14_HoldsWithinFirstPage ==
    Len(registered) <= PageSize => C14_SetupIsIdempotent

(* ------------------------------ flows: claims ------------------------- *)

\* the names of the calls a flow has made, in order
TraceCalls == [i \in 1 .. Len(trace) |-> trace[i].call]

IsPrefix(p, q) == Len(p) <= Len(q) /\ \A i \in 1 .. Len(p) : p[i] = q[i]

\* every call but the last one made has succeeded
EachAfterSuccess == \A i \in 1 .. Len(trace) - 1 : trace[i].ok

FlowExited == fpc \in {"returned", "raised"}

\* C25: the calls of main come in the order create_study, upload_dicom,
\* get_dicoms, create_scan, wait_for_scan_completion, get_report, each made
\* only after the one before it succeeded and with what that one returned
\* (the study to the upload and the scan, the scan to the wait). get_report
\* is called at most once, only after the wait returned a COMPLETED scan,
\* with that scan's report; after a FAILED scan or a wait that raised, main
\* ends without it.
C25_PollingFlowOrder ==
    flow = "main" =>
        /\ IsPrefix(TraceCalls, MainSteps \o <<"get_report">>)
        /\ EachAfterSuccess
        /\ \A i \in 1 .. Len(trace) :
              /\ trace[i].call \in {"upload_dicom", "get_dicoms", "create_scan"} =>
                    trace[i].arg = flocals.study_uuid /\ trace[i].arg \in Uuids
              /\ trace[i].call = "wait_for_scan_completion" =>
                    trace[i].arg = flocals.scan_uuid /\ trace[i].arg \in ScanIds
              /\ trace[i].call = "get_report" =>
                    /\ trace[i - 1].ok
                    /\ flocals.completed_scan.status = "COMPLETED"
                    /\ trace[i].arg = flocals.completed_scan.report
        /\ (FlowExited /\ Len(trace) >= 5
               /\ (~trace[5].ok \/ flocals.completed_scan.status = "FAILED")) =>
              Len(trace) = 5

C25_Witness ==
    /\ flow = "main"
    /\ fpc = "returned"
    /\ Len(trace) = 6
    /\ trace[5].arg = "scan-2"
    /\ trace[6] = [call |-> "get_report", arg |-> "report-2", ok |-> TRUE, error |-> NoError]

\* C30: the calls of webhook_workflow_setup come in the order setup_webhook,
\* create_study, upload_dicom, get_dicoms, create_scan, each made only after
\* the one before it succeeded: when create_scan is called the endpoint has
\* been registered or found. The setup fetches no scan status: it calls
\* neither get_scan nor wait_for_scan_completion, and nothing after
\* create_scan.
C30_WebhookSetupOrder ==
    flow = "webhook_workflow_setup" =>
        /\ IsPrefix(TraceCalls, <<"setup_webhook", "create_study", "upload_dicom",
                                  "get_dicoms", "create_scan">>)
        /\ EachAfterSuccess
        /\ \A i \in 1 .. Len(trace) :
              /\ trace[i].call \notin {"get_scan", "get_scan_progress",
                                       "wait_for_scan_completion"}
              /\ trace[i].call = "create_scan" =>
                    /\ i = Len(trace)
                    /\ \E j \in 1 .. i - 1 : trace[j].call = "setup_webhook" /\ trace[j].ok
                    /\ flocals.webhook # NoWebhook

C30_Witness ==
    /\ flow = "webhook_workflow_setup"
    /\ fpc = "returned"
    /\ Len(trace) = 5
    /\ fresult = [study_uuid |-> "uuid-1", scan_uuid |-> "scan-1", webhook_uuid |-> 1]

\* C26: no error is swallowed. In main and webhook_workflow_setup a call that
\* failed is the last call made and the flow has raised its error; in
\* setup_webhook, in handle_webhook_notification and in the wait an error
\* status answered to a request is raised as the HTTP error, nothing is
\* returned and nothing is called after it; a notification that cannot be
\* parsed is raised as its parse error before any call.
C26_NoErrorSwallowed ==
    /\ \A i \in 1 .. Len(trace) :
          ~trace[i].ok => (i = Len(trace) /\ fpc = "raised" /\ ferror = trace[i].error)
    /\ fpc = "returned" => (ferror = NoError /\ \A i \in 1 .. Len(trace) : trace[i].ok)
    /\ (spc # "idle" /\ AnsweredError) =>
          /\ spc = "raised"
          /\ serror = [type |-> "HTTPStatusError", status_code |-> response.status_code]
          /\ sresult = NoWebhook
    /\ (wpc # "idle" /\ AnsweredError) =>
          /\ wpc = "raised"
          /\ werror = [type |-> "HTTPStatusError", status_code |-> response.status_code]
          /\ wresult = NoResult
    /\ (wpc \notin {"idle", "parse"} /\ ParseError(webhook_payload) # NoError) =>
          /\ wpc = "raised"
          /\ werror = ParseError(webhook_payload)
          /\ calls = <<>>
    /\ (pc # "idle" /\ AnsweredError) =>
          /\ RaisedHttp
          /\ error.status_code = response.status_code
          /\ result = NoScan
          /\ calls[Len(calls)].op = "get_scan"

\* main raised the timeout error of the wait and fetched no report
C26_Witness ==
    /\ flow = "main"
    /\ fpc = "raised"
    /\ ferror = [type |-> "TimeoutError"]
    /\ Len(trace) = 5
    /\ ~trace[5].ok

(* ------------------- concurrent setup_webhook: claims ----------------- *)

\* C29: when the concurrent setup_webhook calls for one URL, started on a
\* remote that holds no registration of it, have all finished, the remote
\* holds at most one registration of the URL.
C29_ConcurrentSetupRegistersOnce ==
    (\A c \in Callers : callers[c].spc \in {"returned", "raised"}) =>
        Cardinality(Registrations(registered, webhook_url)) <= 1

(* -------------- concurrent wait_for_scan_completion: claims ----------- *)

\* the invocation w has returned or raised
WaiterExited(w) == waiters[w].pc \in {"returned", "raised"}

\* what an invocation or a run of the loop has come to
OutcomeOf(r) == [pc |-> r.pc, result |-> r.result, error |-> r.error]

\* a step of one invocation leaves the locals of every other one as they were
OthersUntouched ==
    \A w \in ScanIds :
        waiters'[w] # waiters[w] =>
            \A v \in ScanIds \ {w} : waiters'[v] = waiters[v]

\* C22: invocations of wait_for_scan_completion running concurrently on
\* different scans do not interfere: each asks the remote for its own scan
\* id only, no step of one changes the locals (the start instant among
\* them) of another, each one's start instant is the one its own run alone
\* took, and the outcome of an invocation that has exited is the outcome
\* of the loop run alone on the same responses and clock readings.
C22_ConcurrentWaitsDoNotInterfere ==
    /\ [](\A w \in ScanIds :
            /\ waiters[w].asked \subseteq {waiters[w].scan_uuid}
            /\ waiters[w].pc # "entry" =>
                  waiters[w].start_time = waiters[w].alone.start_time
            /\ WaiterExited(w) => OutcomeOf(waiters[w]) = OutcomeOf(waiters[w].alone))
    /\ [][OthersUntouched]_vars

\* both invocations exited, started at different instants, one by its
\* timeout and the other with the scan it was returned
C22_Witness ==
    \E w \in ScanIds, v \in ScanIds :
        /\ w # v
        /\ waiters[w].pc = "raised"
        /\ waiters[w].error.type = "TimeoutError"
        /\ waiters[v].pc = "returned"
        /\ waiters[v].result.uuid = v
        /\ waiters[v].start_time > waiters[w].start_time
        /\ waiters[v].asked = {v}
        /\ waiters[w].asked = {w}

=============================================================================
